---------------------------- MODULE Spec2Model ----------------------------
(***************************************************************************)
(* A model of src/src/ogg.rs: the Ogg page ("packet") codec, the page      *)
(* chunker, the stream writer and the stream reader.                       *)
(*                                                                         *)
(* Representation.  Bytes are 0..255.  A u32 that takes arbitrary values   *)
(* (the CRC and the checksum field) is a Word: a tuple of four bytes, most *)
(* significant first, because TLC's integers stop at 2^31-1.  The other    *)
(* integer fields (granule_position, stream_id, packet_index) are natural  *)
(* numbers below 2^31 and are converted to and from little-endian bytes.   *)
(*                                                                         *)
(* Scaling.  The code uses 255 for the largest lacing value and for the    *)
(* longest segment table, and 2048 for the reader's read size.  The model  *)
(* keeps the three as the definitions MaxLacing, MaxSegments and           *)
(* READ_SIZE with small values, so that full pages and refills happen      *)
(* within a few bytes.  PageCap (65,025 in the code) is the product of the  *)
(* first two.                                                              *)
(***************************************************************************)
EXTENDS Integers, Sequences, FiniteSets, TLC

(* ------------------------------ bounds --------------------------------- *)
\* largest lacing value: 255 in OggPacket::write (ogg.rs:76-81)
MaxLacing == 2
\* longest segment table: 255 in OggPacket::write (ogg.rs:75)
MaxSegments == 2
\* OggStreamReader::READ_SIZE: 2048 in the code (ogg.rs:332)
READ_SIZE == 64
\* most payload bytes the writer is given in one run
MaxTotal == 9
\* most calls of seal_packet in one run of the writer
MaxSeals == 3
\* most calls on the writer in one run of every operation (Spec)
MaxOps == 4

PageCap == MaxSegments * MaxLacing

(* ------------------------------ bytes ---------------------------------- *)
HeaderSize == 27

RECURSIVE XorBits(_, _, _)
XorBits(a, b, n) ==
    IF n = 0 THEN 0
    ELSE ((a + b) % 2) + 2 * XorBits(a \div 2, b \div 2, n - 1)

\* a ^ b on 4 bits, tabulated
Xor4 == [a \in 0..15 |-> [b \in 0..15 |-> XorBits(a, b, 4)]]

\* a ^ b on u8
Xor8(a, b) == 16 * Xor4[a \div 16][b \div 16] + Xor4[a % 16][b % 16]

\* a ^ b on u32
XorW(a, b) == <<Xor8(a[1], b[1]), Xor8(a[2], b[2]), Xor8(a[3], b[3]), Xor8(a[4], b[4])>>

\* r << 1 on u32
Shl1(r) ==
    << ((2 * r[1]) % 256) + (r[2] \div 128),
       ((2 * r[2]) % 256) + (r[3] \div 128),
       ((2 * r[3]) % 256) + (r[4] \div 128),
       (2 * r[4]) % 256 >>

\* crc << 8 on u32
Shl8(c) == <<c[2], c[3], c[4], 0>>

ZeroWord == <<0, 0, 0, 0>>

\* 0x04c11db7
Polynomial == <<4, 193, 29, 183>>

\* one of the 8 rounds of ogg_generate_crc_table:
\* r = (r << 1) ^ (-(((r >> 31) & 1) as i32) as u32 & 0x04c11db7)
CrcRound(r) == XorW(Shl1(r), IF r[1] >= 128 THEN Polynomial ELSE ZeroWord)

\* crc_lookup[i], from r = i << 24.  The table is created uninitialized
\* (MaybeUninit::assume_init) and every one of its 256 entries is assigned
\* before the table is published, so no read sees an uninitialized entry.
ogg_generate_crc_table ==
    [i \in 0..255 |->
        CrcRound(CrcRound(CrcRound(CrcRound(
        CrcRound(CrcRound(CrcRound(CrcRound(<<i, 0, 0, 0>>))))))))]

\* one step of the loop of OggPacket::crc:
\* crc = (crc << 8) ^ crc_lookup[(*b as u32 ^ (crc >> 24)) as usize]
crc_step(c, b) == XorW(Shl8(c), ogg_generate_crc_table[Xor8(b, c[1])])

\* the loop of OggPacket::crc from byte i on.  (The test on c[1] is always
\* true: it makes TLC evaluate c at each step instead of building a chain.)
RECURSIVE CrcFrom(_, _, _)
CrcFrom(c, data, i) ==
    IF i > Len(data) THEN c
    ELSE IF c[1] >= 0 THEN CrcFrom(crc_step(c, data[i]), data, i + 1)
    ELSE c

\* OggPacket::crc
crc(c, data) == CrcFrom(c, data, 1)

\* u32::to_le_bytes of a Word
WordToLe(w) == <<w[4], w[3], w[2], w[1]>>

\* u32::from_le_bytes to a Word
WordFromLe(b) == <<b[4], b[3], b[2], b[1]>>

\* uN::to_le_bytes of a natural number, n bytes
RECURSIVE ToLe(_, _)
ToLe(v, n) == IF n = 0 THEN <<>> ELSE <<v % 256>> \o ToLe(v \div 256, n - 1)

\* uN::from_le_bytes to a natural number
RECURSIVE FromLe(_)
FromLe(b) == IF b = <<>> THEN 0 ELSE b[1] + 256 * FromLe(Tail(b))

RECURSIVE SumSeq(_)
SumSeq(s) == IF s = <<>> THEN 0 ELSE s[1] + SumSeq(Tail(s))

\* s[from..to) with Rust's 0-based half-open range
Slice(s, from, to) == SubSeq(s, from + 1, to)

(* --------------------------- OggPacket --------------------------------- *)
OggPacketType == {"Continuation", "BeginOfStream", "EndOfStream"}

\* `packet_type as u8`
TypeCode(t) ==
    CASE t = "Continuation" -> 0
      [] t = "BeginOfStream" -> 2
      [] t = "EndOfStream" -> 4

Magic == <<79, 103, 103, 83>>

\* OggPacket::new
OggPacket_new(stream_id, packet_type, packet_index) ==
    [version |-> 0,
     packet_type |-> packet_type,
     granule_position |-> 0,
     stream_id |-> stream_id,
     packet_index |-> packet_index,
     checksum |-> ZeroWord,
     segment_table |-> <<>>,
     data |-> <<>>]

\* impl Default for OggPacket
OggPacket_default ==
    [version |-> 0,
     packet_type |-> "BeginOfStream",
     granule_position |-> 0,
     stream_id |-> 0,
     packet_index |-> 0,
     checksum |-> ZeroWord,
     segment_table |-> <<>>,
     data |-> <<>>]

\* OggPacket::write's loop as it would be if it closed a payload that ends on
\* a full segment with a zero-length segment
RECURSIVE packet_write_loop_terminated(_, _, _)
packet_write_loop_terminated(p, data, written) ==
    LET to_write == Len(data) - written IN
    IF Len(p.segment_table) < MaxSegments
    THEN IF to_write >= MaxLacing
         THEN packet_write_loop_terminated(
                [p EXCEPT !.segment_table = Append(@, MaxLacing),
                          !.data = @ \o Slice(data, written, written + MaxLacing)],
                data, written + MaxLacing)
         ELSE [packet |-> [p EXCEPT !.segment_table = Append(@, to_write),
                                    !.data = @ \o Slice(data, written, written + to_write)],
               written |-> written + to_write]
    ELSE [packet |-> p, written |-> written]

\* the loop of OggPacket::write; `written` bytes of `data` are already taken
RECURSIVE packet_write_loop(_, _, _)
packet_write_loop(p, data, written) ==
    LET to_write == Len(data) - written IN
    IF Len(p.segment_table) < MaxSegments
    THEN IF to_write >= MaxLacing
         THEN packet_write_loop(
                [p EXCEPT !.segment_table = Append(@, MaxLacing),
                          !.data = @ \o Slice(data, written, written + MaxLacing)],
                data, written + MaxLacing)
         ELSE IF to_write = 0
              THEN [packet |-> p, written |-> written]
              ELSE [packet |-> [p EXCEPT !.segment_table = Append(@, to_write),
                                         !.data = @ \o Slice(data, written, written + to_write)],
                    written |-> written + to_write]
    ELSE [packet |-> p, written |-> written]

\* OggPacket::write as it would be if it put the new bytes in front of the
\* page's data
OggPacket_write_front(p, data) ==
    IF Len(data) = 0 THEN [packet |-> p, written |-> 0]
    ELSE LET r == packet_write_loop([p EXCEPT !.data = <<>>], data, 0)
         IN [packet |-> [r.packet EXCEPT !.data = @ \o p.data],
             written |-> r.written]

\* OggPacket::write: the page after the call and the number of bytes taken
OggPacket_write(p, data) ==
    IF Len(data) = 0 THEN [packet |-> p, written |-> 0]
    ELSE packet_write_loop(p, data, 0)

\* OggPacket::clear as it would be if it left the segment table alone
OggPacket_clear_data_only(p) == [p EXCEPT !.data = <<>>]

\* OggPacket::clear
OggPacket_clear(p) == [p EXCEPT !.segment_table = <<>>, !.data = <<>>]

\* OggPacket::get_inner_data_size
get_inner_data_size(p) == SumSeq(p.segment_table)

\* OggPacket::get_checksum on at least 27 bytes (the caller checks the length)
get_checksum(pkt) ==
    crc(ZeroWord, Slice(pkt, 0, 22) \o <<0, 0, 0, 0>> \o Slice(pkt, 26, Len(pkt)))

\* OggPacket::fill_checksum_field
fill_checksum_field(buf) ==
    Slice(buf, 0, 22) \o WordToLe(get_checksum(buf)) \o Slice(buf, 26, Len(buf))

\* OggPacket::into_bytes as it would be with packet_index written before
\* stream_id
into_bytes_swapped(p) ==
    fill_checksum_field(
        Magic
        \o <<p.version>>
        \o <<TypeCode(p.packet_type)>>
        \o ToLe(p.granule_position, 8)
        \o ToLe(p.packet_index, 4)
        \o ToLe(p.stream_id, 4)
        \o <<0, 0, 0, 0>>
        \o <<Len(p.segment_table) % 256>>
        \o p.segment_table
        \o p.data)

\* OggPacket::into_bytes
into_bytes(p) ==
    fill_checksum_field(
        Magic
        \o <<p.version>>
        \o <<TypeCode(p.packet_type)>>
        \o ToLe(p.granule_position, 8)
        \o ToLe(p.stream_id, 4)
        \o ToLe(p.packet_index, 4)
        \o <<0, 0, 0, 0>>
        \o <<Len(p.segment_table) % 256>>
        \o p.segment_table
        \o p.data)

\* the results of from_bytes: Ok, or an io::Error of a kind with its message
DecodeErr(kind, why, packet_length) ==
    [ok |-> FALSE, kind |-> kind, why |-> why, packet_length |-> packet_length]

\* OggPacket::get_length: Ok(length), Err(e), or the panic of the slice
\* ogg_packet[27..data_start] when data_start is past the end of the buffer
get_length(ogg_packet) ==
    IF Len(ogg_packet) < HeaderSize
    THEN [ok |-> FALSE, kind |-> "UnexpectedEof", why |-> "too small"]
    ELSE IF Slice(ogg_packet, 0, 4) # Magic
    THEN [ok |-> FALSE, kind |-> "InvalidData", why |-> "magic"]
    ELSE IF ogg_packet[5] # 0
    THEN [ok |-> FALSE, kind |-> "InvalidData", why |-> "version"]
    ELSE IF ogg_packet[6] \notin {0, 2, 4}
    THEN [ok |-> FALSE, kind |-> "InvalidData", why |-> "packet_type"]
    ELSE
      LET num_segments == ogg_packet[27]
          data_start == HeaderSize + num_segments
      IN
      IF data_start > Len(ogg_packet)
      THEN [ok |-> FALSE, kind |-> "panic", why |-> "slice index"]
      ELSE [ok |-> TRUE,
            length |-> data_start
                       + SumSeq(Slice(ogg_packet, HeaderSize, data_start))]

\* OggPacket::from_bytes as it would be if it looked at the version before
\* the magic
from_bytes_version_first(ogg_packet, packet_length) ==
    IF Len(ogg_packet) < HeaderSize
    THEN DecodeErr("UnexpectedEof", "too small", packet_length)
    ELSE IF ogg_packet[5] # 0
    THEN DecodeErr("InvalidData", "version", packet_length)
    ELSE IF Slice(ogg_packet, 0, 4) # Magic
    THEN DecodeErr("InvalidData", "magic", packet_length)
    ELSE IF ogg_packet[6] \notin {0, 2, 4}
    THEN DecodeErr("InvalidData", "packet_type", packet_length)
    ELSE
      LET packet_type == CASE ogg_packet[6] = 0 -> "Continuation"
                           [] ogg_packet[6] = 2 -> "BeginOfStream"
                           [] ogg_packet[6] = 4 -> "EndOfStream"
          num_segments == ogg_packet[27]
          data_start == HeaderSize + num_segments
      IN
      IF data_start > Len(ogg_packet)
      THEN DecodeErr("UnexpectedEof", "too small", packet_length)
      ELSE
        LET segment_table == Slice(ogg_packet, HeaderSize, data_start)
            new_length == data_start + SumSeq(segment_table)
        IN
        IF Len(ogg_packet) < new_length
        THEN DecodeErr("UnexpectedEof", "too small", new_length)
        ELSE
          LET ret == [version |-> 0,
                      packet_type |-> packet_type,
                      granule_position |-> FromLe(Slice(ogg_packet, 6, 14)),
                      stream_id |-> FromLe(Slice(ogg_packet, 14, 18)),
                      packet_index |-> FromLe(Slice(ogg_packet, 18, 22)),
                      checksum |-> WordFromLe(Slice(ogg_packet, 22, 26)),
                      segment_table |-> segment_table,
                      data |-> Slice(ogg_packet, data_start, new_length)]
              checksum == get_checksum(Slice(ogg_packet, 0, new_length))
          IN
          IF WordFromLe(Slice(ogg_packet, 22, 26)) # checksum
          THEN DecodeErr("InvalidData", "checksum", new_length)
          ELSE [ok |-> TRUE, packet |-> ret, packet_length |-> new_length]

\* OggPacket::from_bytes; packet_length is the caller's in/out variable
from_bytes(ogg_packet, packet_length) ==
    IF Len(ogg_packet) < HeaderSize
    THEN DecodeErr("UnexpectedEof", "too small", packet_length)
    ELSE IF Slice(ogg_packet, 0, 4) # Magic
    THEN DecodeErr("InvalidData", "magic", packet_length)
    ELSE IF ogg_packet[5] # 0
    THEN DecodeErr("InvalidData", "version", packet_length)
    ELSE IF ogg_packet[6] \notin {0, 2, 4}
    THEN DecodeErr("InvalidData", "packet_type", packet_length)
    ELSE
      LET packet_type == CASE ogg_packet[6] = 0 -> "Continuation"
                           [] ogg_packet[6] = 2 -> "BeginOfStream"
                           [] ogg_packet[6] = 4 -> "EndOfStream"
          num_segments == ogg_packet[27]
          data_start == HeaderSize + num_segments
      IN
      IF data_start > Len(ogg_packet)
      THEN DecodeErr("UnexpectedEof", "too small", packet_length)
      ELSE
        LET segment_table == Slice(ogg_packet, HeaderSize, data_start)
            new_length == data_start + SumSeq(segment_table)
        IN
        IF Len(ogg_packet) < new_length
        THEN DecodeErr("UnexpectedEof", "too small", new_length)
        ELSE
          LET ret == [version |-> 0,
                      packet_type |-> packet_type,
                      granule_position |-> FromLe(Slice(ogg_packet, 6, 14)),
                      stream_id |-> FromLe(Slice(ogg_packet, 14, 18)),
                      packet_index |-> FromLe(Slice(ogg_packet, 18, 22)),
                      checksum |-> WordFromLe(Slice(ogg_packet, 22, 26)),
                      segment_table |-> segment_table,
                      data |-> Slice(ogg_packet, data_start, new_length)]
              checksum == get_checksum(Slice(ogg_packet, 0, new_length))
          IN
          IF WordFromLe(Slice(ogg_packet, 22, 26)) # checksum
          THEN DecodeErr("InvalidData", "checksum", new_length)
          ELSE [ok |-> TRUE, packet |-> ret, packet_length |-> new_length]

\* OggPacket::from_cursor: the pages decoded from the front of `data`;
\* `r` is the result of from_bytes on `data`
RECURSIVE from_cursor(_)
from_cursor_step(data, r) ==
    IF ~r.ok THEN <<>>
    ELSE <<r.packet>> \o
         (IF Len(data) = r.packet_length THEN <<>>
          ELSE from_cursor(Slice(data, r.packet_length, Len(data))))

from_cursor(data) == from_cursor_step(data, from_bytes(data, 0))

\* OggPacket::get_segments
RECURSIVE get_segments_from(_, _, _)
get_segments_from(p, k, pos) ==
    IF k > Len(p.segment_table) THEN <<>>
    ELSE <<Slice(p.data, pos, pos + p.segment_table[k])>>
         \o get_segments_from(p, k + 1, pos + p.segment_table[k])

get_segments(p) == get_segments_from(p, 1, 0)

RECURSIVE Flatten(_)
Flatten(ss) == IF ss = <<>> THEN <<>> ELSE ss[1] \o Flatten(Tail(ss))

\* OggPacket::get_inner_data
get_inner_data(p) == Flatten(get_segments(p))

(* ------------------------- OggStreamWriter ----------------------------- *)
\* OggStreamWriter::new; the sink (field `writer`) is the variable `sink`
OggStreamWriter_new(stream_id) ==
    [stream_id |-> stream_id,
     packet_index |-> 0,
     cur_packet |-> OggPacket_new(stream_id, "BeginOfStream", 0),
     granule_position |-> 0,
     bytes_written |-> 0]

\* the default on_seal closure, |i| i as u64
on_seal(i) == i

\* OggStreamWriter::mark_cur_packet_as_end_of_stream
mark_cur_packet_as_end_of_stream(w) ==
    [w EXCEPT !.cur_packet.packet_type = "EndOfStream"]

\* OggStreamWriter::reset
OggStreamWriter_reset(w) ==
    [w EXCEPT !.packet_index = 0,
              !.cur_packet = OggPacket_new(w.stream_id, "BeginOfStream", 0),
              !.granule_position = 0,
              !.bytes_written = 0]

\* seal_packet as it would be if the fresh page took the packet index from
\* before the increment
seal_packet_same_index(w, snk, granule_position, is_end_of_stream, sink_ok) ==
    LET stamped == [w.cur_packet EXCEPT !.granule_position = granule_position]
        packed == IF is_end_of_stream
                  THEN into_bytes([stamped EXCEPT !.packet_type = "EndOfStream"])
                  ELSE into_bytes(stamped)
        fresh == IF is_end_of_stream
                 THEN OggPacket_default
                 ELSE OggPacket_new(w.stream_id, "Continuation", w.packet_index)
    IN [w |-> [w EXCEPT !.packet_index = @ + 1,
                        !.granule_position = granule_position,
                        !.cur_packet = fresh],
        sink |-> IF sink_ok THEN snk \o packed ELSE snk,
        ok |-> sink_ok]

\* OggStreamWriter::seal_packet.  sink_ok: whether write_all succeeds; a
\* failed write_all leaves the sink as it was.
seal_packet(w, snk, granule_position, is_end_of_stream, sink_ok) ==
    LET index == w.packet_index + 1
        stamped == [w.cur_packet EXCEPT !.granule_position = granule_position]
        packed == IF is_end_of_stream
                  THEN into_bytes([stamped EXCEPT !.packet_type = "EndOfStream"])
                  ELSE into_bytes(stamped)
        fresh == IF is_end_of_stream
                 THEN OggPacket_default
                 ELSE OggPacket_new(w.stream_id, "Continuation", index)
    IN [w |-> [w EXCEPT !.packet_index = index,
                        !.granule_position = granule_position,
                        !.cur_packet = fresh],
        sink |-> IF sink_ok THEN snk \o packed ELSE snk,
        ok |-> sink_ok]

\* the loop of <OggStreamWriter as Write>::write.  fail_at: which of this
\* call's seals finds the sink failing (1 = the first; 0 or less = none).
RECURSIVE writer_write_loop(_, _, _, _, _)
writer_write_loop(w, snk, buf, written_total, fail_at) ==
    IF buf = <<>>
    THEN [w |-> w, sink |-> snk, ok |-> TRUE, n |-> written_total]
    ELSE
      LET r == OggPacket_write(w.cur_packet, buf)
          rest == Slice(buf, r.written, Len(buf))
          w1 == [w EXCEPT !.cur_packet = r.packet]
          g == on_seal(get_inner_data_size(r.packet))
          s == seal_packet([w1 EXCEPT !.granule_position = g], snk, g, FALSE,
                           fail_at # 1)
      IN
      IF rest # <<>>
      THEN IF s.ok
           THEN writer_write_loop(s.w, s.sink, rest, written_total + r.written,
                                  fail_at - 1)
           ELSE [w |-> s.w, sink |-> s.sink, ok |-> FALSE, n |-> 0]
      ELSE writer_write_loop(w1, snk, rest, written_total + r.written, fail_at)

\* <OggStreamWriter as Write>::write
OggStreamWriter_write(w, snk, buf, fail_at) ==
    writer_write_loop([w EXCEPT !.bytes_written = Len(buf)], snk, buf, 0, fail_at)

\* <OggStreamWriter as Drop>::drop: seal_packet(granule_position, true).unwrap()
OggStreamWriter_drop(w, snk, sink_ok) ==
    seal_packet(w, snk, w.granule_position, TRUE, sink_ok)

(* ------------------------- OggStreamReader ----------------------------- *)
\* The byte source (R: Read) is a script of what its next reads do:
\*   [t |-> "data", bytes |-> b]  bytes that are there to be read
\*   [t |-> "zero"]               one read that returns Ok(0)
\*   [t |-> "intr"]               one read that fails with ErrorKind::Interrupted
\*   [t |-> "ueof"]               one read that fails with ErrorKind::UnexpectedEof
\*   [t |-> "err"]                one read that fails with another ErrorKind
\* and `chunk`, the most bytes one read delivers.  A source whose script is
\* used up returns Ok(0).
Data(b) == [t |-> "data", bytes |-> b]
Zero == [t |-> "zero"]
Intr == [t |-> "intr"]
UEof == [t |-> "ueof"]
Fail == [t |-> "err"]

Min(a, b) == IF a < b THEN a ELSE b

\* max of std::cmp
max(a, b) == IF a >= b THEN a ELSE b

\* Read::read into a buffer of n > 0 bytes
SourceRead(src, n) ==
    IF src.script = <<>>
    THEN [kind |-> "ok", bytes |-> <<>>, src |-> src]
    ELSE
      LET head == src.script[1]
          rest == Tail(src.script)
          k == Min(n, Min(src.chunk, Len(head.bytes)))
      IN
      CASE head.t = "data" ->
             [kind |-> "ok",
              bytes |-> SubSeq(head.bytes, 1, k),
              src |-> [src EXCEPT !.script =
                          IF k = Len(head.bytes) THEN rest
                          ELSE <<Data(SubSeq(head.bytes, k + 1, Len(head.bytes)))>>
                               \o rest]]
        [] head.t = "zero" ->
             [kind |-> "ok", bytes |-> <<>>, src |-> [src EXCEPT !.script = rest]]
        [] head.t = "intr" ->
             [kind |-> "Interrupted", bytes |-> <<>>,
              src |-> [src EXCEPT !.script = rest]]
        [] head.t = "ueof" ->
             [kind |-> "UnexpectedEof", bytes |-> <<>>,
              src |-> [src EXCEPT !.script = rest]]
        [] head.t = "err" ->
             [kind |-> "Other", bytes |-> <<>>,
              src |-> [src EXCEPT !.script = rest]]

\* OggStreamReader::new
OggStreamReader_new ==
    [stream_id |-> 0, e_o_s |-> FALSE, e_o_f |-> FALSE, cached_bytes |-> <<>>]

\* the loop of OggStreamReader::safe_read; buf holds the bytes read so far
RECURSIVE safe_read_loop(_, _, _)

\* safe_read's loop body as it would be if it returned after the first read
\* that delivered bytes
safe_read_step_once(src, buf, target_len, r) ==
    CASE r.kind = "ok" ->
           [ok |-> TRUE, bytes |-> buf \o r.bytes, src |-> r.src]
      [] r.kind = "Interrupted" ->
           safe_read_loop(r.src, buf, target_len)
      [] r.kind = "UnexpectedEof" ->
           [ok |-> TRUE, bytes |-> buf, src |-> r.src]
      [] r.kind = "Other" ->
           IF Len(buf) > 0
           THEN [ok |-> TRUE, bytes |-> buf, src |-> r.src]
           ELSE [ok |-> FALSE, bytes |-> <<>>, src |-> r.src]

\* one turn of the loop of safe_read on r, the result of the read
safe_read_step(src, buf, target_len, r) ==
    CASE r.kind = "ok" /\ r.bytes = <<>> ->
           [ok |-> TRUE, bytes |-> buf, src |-> r.src]
      [] r.kind = "ok" /\ r.bytes # <<>> ->
           safe_read_loop(r.src, buf \o r.bytes, target_len)
      [] r.kind = "Interrupted" ->
           safe_read_loop(r.src, buf, target_len)
      [] r.kind = "UnexpectedEof" ->
           [ok |-> TRUE, bytes |-> buf, src |-> r.src]
      [] r.kind = "Other" ->
           IF Len(buf) > 0
           THEN [ok |-> TRUE, bytes |-> buf, src |-> r.src]
           ELSE [ok |-> FALSE, bytes |-> <<>>, src |-> r.src]

safe_read_loop(src, buf, target_len) ==
    IF Len(buf) < target_len
    THEN safe_read_step(src, buf, target_len,
                        SourceRead(src, target_len - Len(buf)))
    ELSE [ok |-> TRUE, bytes |-> buf, src |-> src]

\* OggStreamReader::safe_read
safe_read(src, target_len) == safe_read_loop(src, <<>>, target_len)

\* what get_packet returns: Ok(Some(packet)), Ok(None) or Err(e)
SomePacket(p) == [kind |-> "page", packet |-> p]
NoPacket == [kind |-> "none"]
IoError(kind, why) == [kind |-> "err", err |-> kind, why |-> why]

\* OggStreamReader::get_packet; d is the result of from_bytes on the cache
\* and r the result of safe_read
RECURSIVE get_packet(_, _)
get_packet_refill(rd, d, to_read, r) ==
    IF ~r.ok
    THEN [rd |-> rd, src |-> r.src, res |-> IoError("Other", "read")]
    ELSE
      LET rd1 == [rd EXCEPT !.cached_bytes = @ \o r.bytes] IN
      IF Len(r.bytes) < to_read
      THEN IF rd.e_o_f = FALSE
           THEN get_packet([rd1 EXCEPT !.e_o_f = TRUE], r.src)
           ELSE IF Len(r.bytes) = 0
                THEN [rd |-> rd1, src |-> r.src, res |-> NoPacket]
                ELSE [rd |-> rd1, src |-> r.src, res |-> IoError(d.kind, d.why)]
      ELSE get_packet(rd1, r.src)

get_packet_decoded(rd, src, d) ==
    IF d.ok
    THEN [rd |-> [rd EXCEPT !.e_o_s = (d.packet.packet_type = "EndOfStream"),
                            !.cached_bytes =
                                Slice(@, d.packet_length, Len(@))],
          src |-> src,
          res |-> SomePacket(d.packet)]
    ELSE IF d.kind = "UnexpectedEof"
    THEN IF rd.e_o_s
         THEN [rd |-> rd, src |-> src, res |-> NoPacket]
         ELSE get_packet_refill(rd, d, max(d.packet_length, READ_SIZE),
                                safe_read(src, max(d.packet_length, READ_SIZE)))
    ELSE [rd |-> rd, src |-> src, res |-> IoError(d.kind, d.why)]

get_packet(rd, src) == get_packet_decoded(rd, src, from_bytes(rd.cached_bytes, 0))

\* OggStreamReader::is_eos
is_eos(rd) == rd.e_o_s

\* OggStreamReader::is_eof
is_eof(rd) == rd.e_o_f

(* ------------------------------ state ---------------------------------- *)
VARIABLES
    wr,     \* the OggStreamWriter (all fields but the sink and the closure)
    sink,   \* the bytes the sink has taken (OggStreamWriter::writer)
    life,   \* "open", "dropped" (drop returned) or "panicked" (drop's unwrap failed)
    ret,    \* what the last call on the writer returned
    hist,   \* what was done to the writer so far (see WriterInit)
    rd,     \* the OggStreamReader (all fields but the source)
    src,    \* its byte source (OggStreamReader::reader)
    got,    \* what its get_packet calls returned, in call order
    rd1,    \* a second OggStreamReader,
    src1,   \*   its byte source
    got1,   \*   and what its get_packet calls returned
    page,   \* an OggPacket built by a caller
    wire,   \* its serialized bytes, once into_bytes ran
    back    \* what the last call on the page or on its bytes returned

writerVars == <<wr, sink, life, ret, hist>>
readerVars == <<rd, src, got>>
twinVars == <<rd1, src1, got1>>
codecVars == <<page, wire, back>>
vars == <<wr, sink, life, ret, hist, rd, src, got, rd1, src1, got1,
          page, wire, back>>

\* stream ids the writers are created with
StreamIds == {7, 66051}

\* granule positions handed to seal_packet by the caller
Granules == {258}

\* the k-th payload byte handed to the writer (k from 0): every payload
\* byte of a run is different, so that a lost, repeated or moved byte shows
PayloadByte(k) == (7 * k + 3) % 256

\* the next n payload bytes after `done` bytes
NextBuf(done, n) == [i \in 1..n |-> PayloadByte(done + i - 1)]

NoRet == [op |-> "none"]

\* hist: written = all bytes handed to write, in call order; writes = the
\* number of write calls (2 stands for 2 or more); aligned = every write so
\* far had a length that is a multiple of MaxLacing; seals = calls of
\* seal_packet; reset = reset was called; base = Len(sink) at the last
\* reset; failed = the sink has failed a write_all; ops = the number of
\* calls on the writer, counted up to MaxOps
WriterInit ==
    /\ \E s \in StreamIds : wr = OggStreamWriter_new(s)
    /\ sink = <<>>
    /\ life = "open"
    /\ ret = NoRet
    /\ hist = [written |-> <<>>, writes |-> 0, aligned |-> TRUE, seals |-> 0,
               reset |-> FALSE, base |-> 0, failed |-> FALSE, ops |-> 0]

\* one more call on the writer
Called(h) == [h EXCEPT !.ops = IF @ < MaxOps THEN @ + 1 ELSE @]

\* the number of seal_packet calls a result shows: packet_index counts them
SealsIn(w0, w1) == w1.packet_index - w0.packet_index

\* write(buf) with the next n payload bytes
Write(n, fail_at) ==
    /\ life = "open"
    /\ Len(hist.written) + n <= MaxTotal
    /\ LET buf == NextBuf(Len(hist.written), n)
           r == OggStreamWriter_write(wr, sink, buf, fail_at)
       IN /\ hist.seals + SealsIn(wr, r.w) <= MaxSeals
          /\ wr' = r.w
          /\ sink' = r.sink
          /\ ret' = [op |-> "write", ok |-> r.ok, n |-> r.n, len |-> n]
          /\ hist' = [Called(hist) EXCEPT !.written = @ \o buf,
                                  !.writes = IF @ < 2 THEN @ + 1 ELSE @,
                                  !.aligned = @ /\ (n % MaxLacing = 0),
                                  !.seals = @ + SealsIn(wr, r.w),
                                  !.failed = @ \/ ~r.ok]
    /\ UNCHANGED <<life, readerVars, twinVars, codecVars>>

\* seal_packet(g, is_end_of_stream) called by the user
SealPacket(g, is_end_of_stream, sink_ok) ==
    /\ life = "open"
    /\ hist.seals < MaxSeals
    /\ LET r == seal_packet(wr, sink, g, is_end_of_stream, sink_ok)
       IN /\ wr' = r.w
          /\ sink' = r.sink
          /\ ret' = [op |-> "seal_packet", ok |-> r.ok]
          /\ hist' = [Called(hist) EXCEPT !.seals = @ + 1, !.failed = @ \/ ~r.ok]
    /\ UNCHANGED <<life, readerVars, twinVars, codecVars>>

MarkEndOfStream ==
    /\ life = "open"
    /\ wr' = mark_cur_packet_as_end_of_stream(wr)
    /\ ret' = [op |-> "mark"]
    /\ hist' = Called(hist)
    /\ UNCHANGED <<sink, life, readerVars, twinVars, codecVars>>

Reset ==
    /\ life = "open"
    /\ wr' = OggStreamWriter_reset(wr)
    /\ ret' = [op |-> "reset"]
    /\ hist' = [Called(hist) EXCEPT !.reset = TRUE, !.base = Len(sink)]
    /\ UNCHANGED <<sink, life, readerVars, twinVars, codecVars>>

\* the writer goes out of scope: drop runs the final seal and unwraps
Drop(sink_ok) ==
    /\ life = "open"
    /\ LET r == OggStreamWriter_drop(wr, sink, sink_ok)
       IN /\ wr' = r.w
          /\ sink' = r.sink
          /\ life' = IF r.ok THEN "dropped" ELSE "panicked"
          /\ ret' = [op |-> "drop", ok |-> r.ok]
          /\ hist' = [Called(hist) EXCEPT !.seals = @ + 1, !.failed = @ \/ ~r.ok]
    /\ UNCHANGED <<readerVars, twinVars, codecVars>>

\* the parts of the state a specification does not use
NoSource == [script |-> <<>>, chunk |-> 1]

ReaderIdle ==
    /\ rd = OggStreamReader_new
    /\ src = NoSource
    /\ got = <<>>

TwinIdle ==
    /\ rd1 = OggStreamReader_new
    /\ src1 = NoSource
    /\ got1 = <<>>

CodecIdle ==
    /\ page = OggPacket_default
    /\ wire = <<>>
    /\ back = NoRet

WriterIdle ==
    /\ wr = OggStreamWriter_new(0)
    /\ sink = <<>>
    /\ life = "open"
    /\ ret = NoRet
    /\ hist = [written |-> <<>>, writes |-> 0, aligned |-> TRUE, seals |-> 0,
               reset |-> FALSE, base |-> 0, failed |-> FALSE, ops |-> 0]

\* every operation of the writer, with a sink that may fail; the writes are
\* empty, of one byte, or one byte more than a page holds
WriteLens == {0, 1, PageCap + 1}

Init == WriterInit /\ ReaderIdle /\ TwinIdle /\ CodecIdle

Budget == hist.ops < MaxOps

Next ==
    \/ \E n \in WriteLens, fail_at \in 0..1 : Budget /\ Write(n, fail_at)
    \/ \E g \in Granules, e \in BOOLEAN, ok \in BOOLEAN :
          Budget /\ SealPacket(g, e, ok)
    \/ Budget /\ MarkEndOfStream
    \/ Budget /\ Reset
    \/ \E ok \in BOOLEAN : Budget /\ Drop(ok)

Spec == Init /\ [][Next]_vars

\* a fresh writer that is only written to and then dropped, with a sink
\* that never fails
WriteOk(n) == Write(n, 0)

DropOk == Drop(TRUE)

NextWrite ==
    \/ \E n \in 0..MaxTotal : WriteOk(n)
    \/ DropOk

SpecWrite == Init /\ [][NextWrite]_vars

(* ------------------------- the reader alone ---------------------------- *)
\* most get_packet calls on one reader in one run
MaxCalls == 4

\* a page of a stream with id 7, as the writer fills it
StreamPage(packet_type, packet_index, granule_position, segment_table, first) ==
    [OggPacket_new(7, packet_type, packet_index) EXCEPT
        !.granule_position = granule_position,
        !.segment_table = segment_table,
        !.data = NextBuf(first, SumSeq(segment_table))]

\* the bytes of a stream of three pages: BeginOfStream, Continuation,
\* EndOfStream
GoodStream ==
    into_bytes(StreamPage("BeginOfStream", 0, 4, <<2, 2>>, 0))
    \o into_bytes(StreamPage("Continuation", 1, 4, <<2, 2>>, 4))
    \o into_bytes(StreamPage("EndOfStream", 2, 4, <<1>>, 8))

\* the length of the first page of GoodStream
FirstLen == HeaderSize + 2 + 4

\* b with its k-th byte (from 1) changed
Corrupt(b, k) == [b EXCEPT ![k] = (@ + 1) % 256]

\* the byte buffers given to the readers: every prefix of the stream, the
\* stream with a byte of the magic, the version, the type or the payload
\* changed, and the stream followed by more pages after its EndOfStream page
Buffers ==
    {SubSeq(GoodStream, 1, k) : k \in 0..Len(GoodStream)}
    \cup {Corrupt(GoodStream, k) : k \in {1, 5, 6, FirstLen, FirstLen + 1}}
    \cup {GoodStream \o SubSeq(GoodStream, 1, k) : k \in {FirstLen, FirstLen + 3}}

\* a source that has all of b from the start, delivered as asked
OneShot(b) == [script |-> IF b = <<>> THEN <<>> ELSE <<Data(b)>>,
               chunk |-> Len(b) + 1]

\* a source that has all of b from the start, delivered one byte per read
Bytewise(b) == [script |-> IF b = <<>> THEN <<>> ELSE <<Data(b)>>, chunk |-> 1]

\* a source that has the first k bytes of b, then lets one read do `ev`,
\* and has the rest of b after that
Broken(b, k, ev) ==
    [script |-> (IF k = 0 THEN <<>> ELSE <<Data(SubSeq(b, 1, k))>>)
                \o <<ev>>
                \o (IF k = Len(b) THEN <<>> ELSE <<Data(SubSeq(b, k + 1, Len(b)))>>),
     chunk |-> Len(b) + 1]

\* the buffers and the places where the sources of SpecReader break: the
\* stream cut around the end of its first page, whole, damaged, followed by
\* one more page, and followed by bytes that are no page
ReaderBuffers ==
    {SubSeq(GoodStream, 1, k) :
        k \in {FirstLen - 1, FirstLen, FirstLen + 1, Len(GoodStream)}}
    \cup {Corrupt(GoodStream, k) : k \in {1, FirstLen}}
    \cup {GoodStream \o SubSeq(GoodStream, 1, FirstLen)}
    \cup {GoodStream \o SubSeq(Corrupt(GoodStream, 1), 1, FirstLen)}

Breaks == {0, 10, FirstLen, FirstLen + 10}

Sources ==
    {OneShot(b) : b \in ReaderBuffers}
    \cup UNION {{Broken(b, k, ev) : k \in {j \in Breaks : j <= Len(b)},
                                    ev \in {Zero, Intr, UEof, Fail}} :
                b \in ReaderBuffers}

ReaderInit ==
    /\ rd = OggStreamReader_new
    /\ src \in Sources
    /\ got = <<>>

\* one call of get_packet
GetPacket ==
    /\ Len(got) < MaxCalls
    /\ LET r == get_packet(rd, src)
       IN /\ rd' = r.rd
          /\ src' = r.src
          /\ got' = Append(got, r.res)
    /\ UNCHANGED <<writerVars, twinVars, codecVars>>

InitReader == ReaderInit /\ WriterIdle /\ TwinIdle /\ CodecIdle

NextReader == GetPacket

SpecReader == InitReader /\ [][NextReader]_vars

\* two readers over the same buffer, one with a source that delivers it as
\* asked and one with a source that delivers it a byte per read; each is
\* polled until it returns no page
Finished(g) == g # <<>> /\ g[Len(g)].kind # "page"

TwinInit ==
    /\ rd = OggStreamReader_new
    /\ rd1 = OggStreamReader_new
    /\ got = <<>>
    /\ got1 = <<>>
    /\ \E b \in Buffers : src = OneShot(b) /\ src1 = Bytewise(b)

PollOneShot ==
    /\ ~Finished(got)
    /\ LET r == get_packet(rd, src)
       IN /\ rd' = r.rd
          /\ src' = r.src
          /\ got' = Append(got, r.res)
    /\ UNCHANGED <<writerVars, twinVars, codecVars>>

PollBytewise ==
    /\ ~Finished(got1)
    /\ LET r == get_packet(rd1, src1)
       IN /\ rd1' = r.rd
          /\ src1' = r.src
          /\ got1' = Append(got1, r.res)
    /\ UNCHANGED <<writerVars, readerVars, codecVars>>

InitTwin == TwinInit /\ WriterIdle /\ CodecIdle

NextTwin ==
    \/ PollOneShot
    \/ PollBytewise

SpecTwin == InitTwin /\ [][NextTwin]_vars

(* --------------------------- reader claims ----------------------------- *)
\* C4: a reader whose source delivers a buffer as asked and a reader whose
\* source delivers the same buffer one byte per read return the same results
\* in the same order, call for call, up to and including the call that
\* returns no page (no more pages, or an error), and end with the same flags.
C4_StreamingEquivalence ==
    /\ \A i \in 1..Min(Len(got), Len(got1)) : got[i] = got1[i]
    /\ (Finished(got) /\ Finished(got1)) =>
          /\ got = got1
          /\ is_eos(rd) = is_eos(rd1)
          /\ is_eof(rd) = is_eof(rd1)

C4_Witness ==
    /\ Finished(got)
    /\ Finished(got1)
    /\ Len(got1) = 4
    /\ got1[3].kind = "page"
    /\ got1[3].packet.packet_type = "EndOfStream"
    /\ got = got1

\* C5: get_packet never returns the not-enough-bytes error (UnexpectedEof)
\* to its caller, whatever the source does.
C5_NoTruncatedInputError ==
    \A i \in 1..Len(got) :
        ~(got[i].kind = "err" /\ got[i].err = "UnexpectedEof")

\* get_packet returned the not-enough-bytes error while the cache holds a
\* whole valid page
C5_Witness ==
    /\ got # <<>>
    /\ got[Len(got)].kind = "err"
    /\ got[Len(got)].err = "UnexpectedEof"
    /\ from_bytes(rd.cached_bytes, 0).ok

(* ------------------------- the codec alone ----------------------------- *)
\* segment tables of the pages a caller builds: any lacing values, also 0
\* and values above MaxLacing, which from_bytes and into_bytes do not look at
SegmentTables == {<<>>, <<0>>, <<1>>, <<0, 2>>, <<3, 0, 1>>}

\* values of granule_position, stream_id, packet_index: one, two, three
\* and four bytes long
FieldValues == {0, 258, 66051, 2147483647}

\* the checksum field of a page in memory: zero as OggPacket::new leaves it,
\* or anything else
ChecksumFields == {ZeroWord, <<222, 173, 190, 239>>}

\* version 0, a valid type, a payload as long as its segment table says
PageInputs ==
    { [version |-> 0,
       packet_type |-> t,
       granule_position |-> g,
       stream_id |-> s,
       packet_index |-> i,
       checksum |-> c,
       segment_table |-> st,
       data |-> NextBuf(g % 7, SumSeq(st))] :
      t \in OggPacketType, g \in FieldValues, s \in FieldValues,
      i \in {0, 258}, c \in ChecksumFields, st \in SegmentTables }

CodecInit ==
    /\ page \in PageInputs
    /\ wire = <<>>
    /\ back = NoRet

\* page.into_bytes()
IntoBytes ==
    /\ wire = <<>>
    /\ wire' = into_bytes(page)
    /\ UNCHANGED <<page, back, writerVars, readerVars, twinVars>>

\* OggPacket::from_bytes(&wire, &mut packet_length) with packet_length = 0
FromBytes ==
    /\ wire # <<>>
    /\ back = NoRet
    /\ back' = [op |-> "from_bytes", r |-> from_bytes(wire, 0)]
    /\ UNCHANGED <<page, wire, writerVars, readerVars, twinVars>>

InitCodec == CodecInit /\ WriterIdle /\ ReaderIdle /\ TwinIdle

NextCodec ==
    \/ IntoBytes
    \/ FromBytes

SpecCodec == InitCodec /\ [][NextCodec]_vars

(* --------------------------- codec claims ------------------------------ *)
\* C3 as claimed: decode(encode(page)) succeeds, consumes the whole encoding
\* and returns a page equal to the original in every field, checksum included.
C3_RoundTripAllFields ==
    back # NoRet =>
        /\ back.r.ok
        /\ back.r.packet_length = Len(wire)
        /\ back.r.packet = page

\* C3 as amended: decode(encode(page)) succeeds, consumes the whole encoding
\* and returns a page equal to the original in every field but checksum and
\* byte for byte on the payload; its checksum field is the checksum that
\* encode computed and stored at bytes 22..26, not the original's field.
C3_RoundTripButChecksum ==
    back # NoRet =>
        /\ back.r.ok
        /\ back.r.packet_length = Len(wire)
        /\ [back.r.packet EXCEPT !.checksum = page.checksum] = page
        /\ back.r.packet.data = page.data
        /\ back.r.packet.checksum = WordFromLe(Slice(wire, 22, 26))
        /\ back.r.packet.checksum = get_checksum(wire)

C3_Witness ==
    /\ back # NoRet
    /\ back.r.ok
    /\ Len(page.segment_table) = 3
    /\ page.stream_id = 66051
    /\ page.granule_position = 2147483647
    /\ back.r.packet.checksum # page.checksum

(* --------------------------- writer claims ----------------------------- *)
\* the pages the sink holds, decoded from its bytes in order
SinkPages == from_cursor(sink)

\* the pages the sink was given since the last reset
PagesSinceReset == from_cursor(Slice(sink, hist.base, Len(sink)))

\* the encoded length of a page
WireLen(p) == HeaderSize + Len(p.segment_table) + Len(p.data)

RECURSIVE WireLens(_)
WireLens(pages) ==
    IF pages = <<>> THEN 0 ELSE WireLen(pages[1]) + WireLens(Tail(pages))

\* the payloads of a sequence of pages, concatenated in order
RECURSIVE Payloads(_)
Payloads(pages) ==
    IF pages = <<>> THEN <<>>
    ELSE get_inner_data(pages[1]) \o Payloads(Tail(pages))

\* C1: for every sequence of write calls on a fresh writer with a sink that
\* never fails, every write reports the whole buffer written, the payloads of
\* the pages in the sink followed by the payload of the open page are the
\* written bytes in call order, and once the writer is dropped the sink is
\* nothing but pages whose payloads, in order, are the written bytes.
C1_PayloadPreserved ==
    LET pages == SinkPages IN
    /\ ret.op = "write" => ret.ok /\ ret.n = ret.len
    /\ WireLens(pages) = Len(sink)
    /\ life = "open" =>
          Payloads(pages) \o get_inner_data(wr.cur_packet) = hist.written
    /\ life = "dropped" => Payloads(pages) = hist.written

C1_Witness ==
    /\ life = "dropped"
    /\ hist.writes = 2
    /\ Len(hist.written) = MaxTotal
    /\ Len(SinkPages) >= 3

\* C2: with no reset and a sink that never fails, once the writer is
\* dropped the sink holds exactly one EndOfStream page and it is the last.
C2_ExactlyOneEndOfStream ==
    (life = "dropped" /\ ~hist.failed /\ ~hist.reset) =>
        LET pages == SinkPages IN
        /\ Cardinality({i \in 1..Len(pages) :
                            pages[i].packet_type = "EndOfStream"}) = 1
        /\ pages[Len(pages)].packet_type = "EndOfStream"

\* a dropped writer, no reset, no sink failure, two EndOfStream pages in the
\* sink
C2_Witness ==
    /\ life = "dropped"
    /\ ~hist.failed
    /\ ~hist.reset
    /\ Cardinality({i \in 1..Len(SinkPages) :
                        SinkPages[i].packet_type = "EndOfStream"}) = 2

\* C6: with a sink that never fails, the pages written since creation or
\* the last reset carry packet_index 0, 1, 2, ... in sink order.
C6_PacketIndexCounts ==
    ~hist.failed =>
        LET pages == PagesSinceReset IN
        \A i \in 1..Len(pages) : pages[i].packet_index = i - 1

\* a page written after an end-of-stream seal carries packet_index 0 again
C6_Witness ==
    /\ ~hist.failed
    /\ ~hist.reset
    /\ Len(SinkPages) = 2
    /\ SinkPages[1].packet_type = "EndOfStream"
    /\ SinkPages[2].packet_index = 0

\* C7: every page in the sink carries the stream id the writer was created
\* with.
C7_StreamIdOnEveryPage ==
    ~hist.failed =>
        LET pages == SinkPages IN
        \A i \in 1..Len(pages) : pages[i].stream_id = wr.stream_id

\* a page written after an end-of-stream seal carries stream_id 0
C7_Witness ==
    /\ ~hist.failed
    /\ Len(SinkPages) = 2
    /\ SinkPages[1].stream_id = wr.stream_id
    /\ SinkPages[2].stream_id = 0
    /\ wr.stream_id # 0

\* C8: of a stream written with write calls and closed, the first page is
\* BeginOfStream, the last is EndOfStream, the pages between Continuation.
C8_BeginContinuationEnd ==
    life = "dropped" =>
        LET pages == SinkPages IN
        /\ pages[1].packet_type = "BeginOfStream"
        /\ pages[Len(pages)].packet_type = "EndOfStream"
        /\ \A i \in 2..(Len(pages) - 1) : pages[i].packet_type = "Continuation"

\* a stream of one page, written and closed: its only page is EndOfStream
C8_Witness ==
    /\ life = "dropped"
    /\ hist.writes = 1
    /\ Len(hist.written) = 1
    /\ Len(SinkPages) = 1
    /\ SinkPages[1].packet_type = "EndOfStream"

\* what one write call of n bytes on a fresh writer with stream id s, then
\* drop, puts in the sink
WrittenStream(s, n) ==
    LET r == OggStreamWriter_write(OggStreamWriter_new(s), <<>>, NextBuf(0, n), 0)
    IN OggStreamWriter_drop(r.w, r.sink, TRUE).sink

\* two pages, packet_index 0 and 1, each full, the second EndOfStream
TwoFullPages(pages) ==
    /\ Len(pages) = 2
    /\ pages[1].packet_index = 0
    /\ pages[2].packet_index = 1
    /\ Len(pages[1].data) = PageCap
    /\ Len(pages[2].data) = PageCap
    /\ pages[2].packet_type = "EndOfStream"

\* C9 as claimed: 2 * PageCap bytes written in any split of write calls and
\* then closed put in the sink the two pages one write call puts there.
C9_AnySplitSamePages ==
    (life = "dropped" /\ Len(hist.written) = 2 * PageCap) =>
        /\ TwoFullPages(SinkPages)
        /\ sink = WrittenStream(wr.stream_id, 2 * PageCap)

\* C9 as amended: 2 * PageCap bytes written in write calls whose lengths are
\* all multiples of MaxLacing (255 in the code) and then closed put in the
\* sink the two pages one write call puts there: packet_index 0 and 1, each
\* holding PageCap bytes, the second EndOfStream.
C9_FullSegmentSplitSamePages ==
    (life = "dropped" /\ Len(hist.written) = 2 * PageCap /\ hist.aligned) =>
        /\ TwoFullPages(SinkPages)
        /\ sink = WrittenStream(wr.stream_id, 2 * PageCap)

C9_Witness ==
    /\ life = "dropped"
    /\ Len(hist.written) = 2 * PageCap
    /\ hist.aligned
    /\ hist.writes = 2
    /\ TwoFullPages(SinkPages)

\* C10: after a single write of N > 0 bytes to a fresh writer the sink holds
\* floor((N-1)/PageCap) pages of PageCap payload bytes each and the open page
\* holds the remaining 1..PageCap bytes; dropping the writer then seals the
\* open page as EndOfStream with packet_index = the number of pages before it.
C10_SingleWritePages ==
    (hist.writes = 1 /\ Len(hist.written) > 0) =>
        LET N == Len(hist.written)
            k == (N - 1) \div PageCap
            pages == SinkPages
        IN
        /\ life = "open" =>
              /\ Len(pages) = k
              /\ \A i \in 1..k : Len(pages[i].data) = PageCap
              /\ Len(wr.cur_packet.data) = N - k * PageCap
              /\ Len(wr.cur_packet.data) \in 1..PageCap
        /\ life = "dropped" =>
              /\ Len(pages) = k + 1
              /\ \A i \in 1..k : Len(pages[i].data) = PageCap
              /\ pages[k + 1].packet_type = "EndOfStream"
              /\ pages[k + 1].packet_index = k
              /\ Len(pages[k + 1].data) = N - k * PageCap

C10_Witness ==
    /\ hist.writes = 1
    /\ Len(hist.written) = PageCap + 1
    /\ life = "dropped"
    /\ Len(SinkPages) = 2
    /\ SinkPages[2].packet_index = 1

(* ------------------------ writer claims, continued ---------------------- *)
\* C11: discarding the writer never ends in a panic, also when the sink
\* fails on the final seal.
C11_DropNeverPanics == life # "panicked"

\* the sink failed the final seal of drop, after a write that sealed a page
C11_Witness ==
    /\ life = "panicked"
    /\ ret = [op |-> "drop", ok |-> FALSE]
    /\ Len(SinkPages) >= 1

(* -------------------------- the page alone ------------------------------ *)
\* most calls on one page in one run
MaxPageCalls == 3

\* lengths of the payloads handed to OggPacket::write: nothing, less than a
\* segment, whole segments, a whole page, and more than a page holds
ChunkLens == 0..(PageCap + MaxLacing + 1)

\* a new empty page
PageInit ==
    /\ \E s \in StreamIds, t \in OggPacketType : page = OggPacket_new(s, t, 0)
    /\ wire = <<>>
    /\ back = NoRet

\* the calls made on the page so far
PageCalls == IF back = NoRet THEN 0 ELSE back.calls

\* page.write(buf) with n payload bytes; back keeps the buffer, the number
\* returned and the page as it was before the call
PageWrite(n) ==
    /\ PageCalls < MaxPageCalls
    /\ LET buf == NextBuf(Len(page.data), n)
           r == OggPacket_write(page, buf)
       IN /\ page' = r.packet
          /\ back' = [op |-> "write", n |-> r.written, buf |-> buf,
                      before |-> page, calls |-> PageCalls + 1]
    /\ UNCHANGED <<wire, writerVars, readerVars, twinVars>>

\* page.clear()
PageClear ==
    /\ PageCalls < MaxPageCalls
    /\ page' = OggPacket_clear(page)
    /\ back' = [op |-> "clear", before |-> page, calls |-> PageCalls + 1]
    /\ UNCHANGED <<wire, writerVars, readerVars, twinVars>>

InitPage == PageInit /\ WriterIdle /\ ReaderIdle /\ TwinIdle

NextPage ==
    \/ \E n \in ChunkLens : PageWrite(n)
    \/ PageClear

SpecPage == InitPage /\ [][NextPage]_vars

(* ---------------------------- page claims ------------------------------- *)
\* the segment table the chunking law gives for N bytes: N \div MaxLacing
\* full segments, then the remainder if there is one
ChunkLaw(N) ==
    [i \in 1..(N \div MaxLacing) |-> MaxLacing]
    \o (IF N % MaxLacing > 0 THEN <<N % MaxLacing>> ELSE <<>>)

\* the last call was write on an empty page
WroteOnEmptyPage ==
    /\ back # NoRet
    /\ back.op = "write"
    /\ back.before.segment_table = <<>>
    /\ back.before.data = <<>>

\* C12 as claimed: write on an empty page with a payload of any length N
\* leaves the segment table of the chunking law and returns min(N, PageCap).
C12_ChunkingLawAnyLength ==
    WroteOnEmptyPage =>
        /\ page.segment_table = ChunkLaw(Len(back.buf))
        /\ back.n = Min(Len(back.buf), PageCap)

\* C12 as amended: write on an empty page with a payload of length N leaves
\* the first MaxSegments (255 in the code) entries of the chunking law's
\* segment table, which is the whole of it when N <= PageCap, returns
\* min(N, PageCap), and the page's data are the first min(N, PageCap) bytes
\* of the payload.
C12_ChunkingLawUpToFullPage ==
    WroteOnEmptyPage =>
        LET law == ChunkLaw(Len(back.buf)) IN
        /\ page.segment_table = SubSeq(law, 1, Min(Len(law), MaxSegments))
        /\ back.n = Min(Len(back.buf), PageCap)
        /\ page.data = SubSeq(back.buf, 1, back.n)

C12_Witness ==
    /\ WroteOnEmptyPage
    /\ Len(back.buf) = PageCap + 1
    /\ back.n = PageCap
    /\ Len(page.segment_table) = MaxSegments

\* C20: from a new empty page, after any sequence of write and clear calls,
\* the segment table has at most MaxSegments (255) entries and the data are
\* as long as the segment table says; the number write returns is the growth
\* of the data; write on a page whose segment table is full returns 0 and
\* changes nothing.
C20_PageInvariant ==
    /\ Len(page.segment_table) <= MaxSegments
    /\ Len(page.data) = SumSeq(page.segment_table)
    /\ (back # NoRet /\ back.op = "write") =>
          /\ back.n = Len(page.data) - Len(back.before.data)
          /\ Len(back.before.segment_table) = MaxSegments =>
                (back.n = 0 /\ page = back.before)

C20_Witness ==
    /\ back # NoRet
    /\ back.op = "write"
    /\ back.calls = MaxPageCalls
    /\ Len(back.before.segment_table) = MaxSegments
    /\ Len(back.before.data) < PageCap
    /\ Len(back.buf) > 0

(* ----------------------- reader claims, continued ----------------------- *)
\* get_packet has returned an EndOfStream page
SawEndOfStream ==
    \E i \in 1..Len(got) :
        got[i].kind = "page" /\ got[i].packet.packet_type = "EndOfStream"

\* C13: once get_packet has returned an EndOfStream page, is_eos() is true
\* after that call and after every later get_packet call.
C13_EndOfStreamLatched == SawEndOfStream => is_eos(rd)

\* a page that follows the EndOfStream page was returned and is_eos() is
\* false again
C13_Witness ==
    /\ Len(got) = 4
    /\ got[3].kind = "page"
    /\ got[3].packet.packet_type = "EndOfStream"
    /\ got[4].kind = "page"
    /\ ~is_eos(rd)

\* the reads of the script that fail with a hard error and are still to come
HardErrorsLeft(s) ==
    Cardinality({i \in 1..Len(s.script) : s.script[i] = Fail})

\* C14: a get_packet call during which a read of the source failed with a
\* hard error returns that error, also when the same refill had obtained
\* bytes before the failure; no call returns an interrupt.
C14_HardErrorReturned ==
    [][(got' # got) =>
          /\ HardErrorsLeft(src') < HardErrorsLeft(src) =>
                got'[Len(got')] = IoError("Other", "read")
          /\ got'[Len(got')].kind = "err" => got'[Len(got')].err # "Interrupted"
      ]_vars

(* ------------------------ writer claims, continued ---------------------- *)
\* C15: after any sequence of successful write calls on a fresh writer,
\* get_bytes_written() is the sum of the lengths of all buffers written.
C15_BytesWrittenRunningTotal ==
    ~hist.failed => wr.bytes_written = Len(hist.written)

\* two writes, and the counter holds the length of the last buffer only
C15_Witness ==
    /\ life = "open"
    /\ hist.writes = 2
    /\ ret.op = "write"
    /\ ret.len > 0
    /\ wr.bytes_written = ret.len
    /\ wr.bytes_written < Len(hist.written)

(* ----------------------- reader claims, continued ----------------------- *)
\* C17: after get_packet has returned the first page of a source, the
\* reader's stream_id field is the stream_id of that page.
C17_ReaderStreamIdSet ==
    (got # <<>> /\ got[1].kind = "page") =>
        rd.stream_id = got[1].packet.stream_id

\* the first page, of stream 7, was returned and the field is still 0
C17_Witness ==
    /\ got # <<>>
    /\ got[1].kind = "page"
    /\ got[1].packet.stream_id = 7
    /\ rd.stream_id = 0

(* ------------------------ decoding any buffer --------------------------- *)
\* a valid page of 33 bytes: two segments of two bytes
OnePage == into_bytes(StreamPage("BeginOfStream", 0, 4, <<2, 2>>, 0))

\* b with the bytes at the positions ks (from 1) changed
Damage(b, ks) == [i \in 1..Len(b) |-> IF i \in ks THEN (b[i] + 1) % 256 ELSE b[i]]

\* the bytes damaged in the buffers: none; the magic; the version; the
\* packet type; the checksum; the payload; the segment count; and several
\* of them at once
Damages ==
    {{}, {1}, {4}, {5}, {6}, {23}, {27}, {33},
     {1, 5}, {1, 6}, {1, 23}, {5, 6}, {5, 23}, {6, 23}, {1, 5, 6, 23}}

\* the buffers handed to from_bytes and get_length: every prefix of the
\* page, damaged or not, and the page with bytes after it
DecodeBuffers ==
    UNION {{SubSeq(Damage(OnePage, ks), 1, n) : n \in 1..Len(OnePage)} :
           ks \in Damages}
    \cup {Damage(OnePage, ks) \o <<1, 2>> : ks \in Damages}

DecodeInit ==
    /\ page = OggPacket_default
    /\ wire \in DecodeBuffers
    /\ back = NoRet

\* OggPacket::get_length(&wire)
GetLength ==
    /\ wire # <<>>
    /\ back = NoRet
    /\ back' = [op |-> "get_length", r |-> get_length(wire)]
    /\ UNCHANGED <<page, wire, writerVars, readerVars, twinVars>>

InitDecode == DecodeInit /\ WriterIdle /\ ReaderIdle /\ TwinIdle

NextDecode ==
    \/ FromBytes
    \/ GetLength

SpecDecode == InitDecode /\ [][NextDecode]_vars

(* --------------------------- decode claims ------------------------------ *)
\* what the header of a buffer of at least HeaderSize bytes says
MagicOk(b) == SubSeq(b, 1, 4) = Magic
VersionOk(b) == b[5] = 0
TypeOk(b) == b[6] \in {0, 2, 4}
HeaderOk(b) == Len(b) >= HeaderSize /\ MagicOk(b) /\ VersionOk(b) /\ TypeOk(b)

\* the segment table the header declares is wholly in the buffer
TablePresent(b) == Len(b) >= HeaderSize + b[27]

\* the segment table and the payload are wholly in the buffer
PagePresent(b) ==
    /\ TablePresent(b)
    /\ Len(b) >= HeaderSize + b[27]
                 + SumSeq(SubSeq(b, HeaderSize + 1, HeaderSize + b[27]))

\* the error values of the claims
TooSmall(r) == ~r.ok /\ r.kind = "UnexpectedEof" /\ r.why = "too small"
Malformed(r, why) == ~r.ok /\ r.kind = "InvalidData" /\ r.why = why
ChecksumMismatch(r) == ~r.ok /\ r.kind = "InvalidData" /\ r.why = "checksum"

\* C16: get_length on a buffer of at least 27 bytes with valid magic,
\* version and packet type whose declared segment table is not wholly
\* present fails with the 'too small' error: no panic, no length.
C16_MissingTableTooSmall ==
    (back # NoRet /\ back.op = "get_length"
       /\ HeaderOk(wire) /\ ~TablePresent(wire)) => TooSmall(back.r)

\* the buffer holds the header and a part of the segment table, and
\* get_length panicked
C16_Witness ==
    /\ back # NoRet
    /\ back.op = "get_length"
    /\ HeaderOk(wire)
    /\ Len(wire) = HeaderSize + 1
    /\ wire[27] = 2
    /\ back.r.kind = "panic"

\* C18: from_bytes reports the first failing check in the order length,
\* magic, version, packet type, segment table and payload present,
\* checksum: a buffer shorter than 27 bytes is too small whatever it holds;
\* a buffer of at least 27 bytes with a wrong magic is malformed whatever
\* else it holds; a checksum mismatch is reported only when all the checks
\* before it pass; and a buffer that passes them all decodes.
C18_FirstFailingCheck ==
    (back # NoRet /\ back.op = "from_bytes") =>
        LET r == back.r
            b == wire
        IN
        /\ Len(b) < HeaderSize => TooSmall(r)
        /\ (Len(b) >= HeaderSize /\ ~MagicOk(b)) => Malformed(r, "magic")
        /\ (Len(b) >= HeaderSize /\ MagicOk(b) /\ ~VersionOk(b)) =>
              Malformed(r, "version")
        /\ (Len(b) >= HeaderSize /\ MagicOk(b) /\ VersionOk(b) /\ ~TypeOk(b)) =>
              Malformed(r, "packet_type")
        /\ (HeaderOk(b) /\ ~PagePresent(b)) => TooSmall(r)
        /\ ChecksumMismatch(r) => (HeaderOk(b) /\ PagePresent(b))
        /\ (HeaderOk(b) /\ PagePresent(b)) => (r.ok \/ ChecksumMismatch(r))
        /\ r.ok => r.packet_length = HeaderSize + b[27] + Len(r.packet.data)

\* a buffer of 30 bytes with a wrong magic, a wrong version and a wrong
\* checksum was refused for its magic
C18_Witness ==
    /\ back # NoRet
    /\ back.op = "from_bytes"
    /\ Len(wire) = 30
    /\ ~MagicOk(wire)
    /\ ~VersionOk(wire)
    /\ Malformed(back.r, "magic")

\* the type of the last page get_packet returned, "none" if it returned none
LastPageType(g) ==
    LET idx == {i \in 1..Len(g) : g[i].kind = "page"} IN
    IF idx = {} THEN "none"
    ELSE g[CHOOSE i \in idx : \A j \in idx : j <= i].packet.packet_type

\* C19: whenever get_packet returns no page without an error, is_eos() is
\* true if the last page returned was an EndOfStream page, and otherwise
\* is_eos() is false and is_eof() is true; and a get_packet call made when
\* end-of-stream is set and the cache holds no complete page returns no page
\* without an error and without reading from the source.
C19_FlagsTellCleanEnd ==
    /\ [](got # <<>> /\ got[Len(got)] = NoPacket =>
            IF LastPageType(got) = "EndOfStream" THEN is_eos(rd)
            ELSE ~is_eos(rd) /\ is_eof(rd))
    /\ [][(got' # got /\ is_eos(rd) /\ ~from_bytes(rd.cached_bytes, 0).ok) =>
             (got'[Len(got')] = NoPacket /\ src' = src)]_vars

\* after the EndOfStream page the cache held bytes that are no page, and
\* get_packet returned an error
C19_Witness ==
    /\ Len(got) = 4
    /\ LastPageType(got) = "EndOfStream"
    /\ got[3].kind = "page"
    /\ got[4].kind = "err"
    /\ got[4].err = "InvalidData"
    /\ is_eos(rd)
=============================================================================
